---- MODULE Spec2Model ----
(***************************************************************************)
(* Model of get_movie_data.ipynb: the flixable list-page harvester         *)
(* (get_flixable_movie_urls), the OMDB lookup (get_extra_info), the        *)
(* per-url enrichment loop (get_info) and the "Perform Scrape" cell.       *)
(*                                                                         *)
(* Python strings are sequences of one-character strings, Python dicts     *)
(* are functions from key to value (the harvester's dict, whose insertion  *)
(* order decides the order of .values(), is a sequence of key/url pairs).  *)
(* A call either returns a value or raises: [fault, value].                *)
(***************************************************************************)
EXTENDS Integers, Sequences, FiniteSets, TLC

VARIABLES pc, page, movie_urls, movie_keys, info_dicts, csv, log, fault,
          fn, arg, ret

vars == <<pc, page, movie_urls, movie_keys, info_dicts, csv, log, fault,
          fn, arg, ret>>

script_vars == <<page, movie_urls, movie_keys, info_dicts, csv, log, fault>>

-----------------------------------------------------------------------------
(* Bounds of the model *)

\* longest text of the "added to netflix" block a detail page renders
MaxLen == 3
\* most elements one list page holds that match the title selector
MaxElems == 2
\* most urls the scrape loop collects before the list pages run dry
MaxUrls == 2

(* Program constants *)

N_PAGES == 30

FLIXABLE_REQUEST_URL == <<"f">>

-----------------------------------------------------------------------------
(* Python values *)

None == <<"None">>

EmptyDict == [k \in {} |-> None]

Return(v) == [fault |-> "none", value |-> v]

Raise(e) == [fault |-> e, value |-> None]

Whitespace == {" "}

RECURSIVE lstrip(_)
lstrip(s) ==
  IF s # <<>> /\ Head(s) \in Whitespace THEN lstrip(Tail(s)) ELSE s

RECURSIVE rstrip(_)
rstrip(s) ==
  IF s # <<>> /\ s[Len(s)] \in Whitespace
    THEN rstrip(SubSeq(s, 1, Len(s) - 1))
    ELSE s

\* str.strip()
strip(s) == rstrip(lstrip(s))

\* str.split(sep): the segments between the occurrences of sep, all of them
RECURSIVE split(_, _)
split(s, sep) ==
  IF \A i \in 1..Len(s) : s[i] # sep
    THEN <<s>>
    ELSE LET i == CHOOSE n \in 1..Len(s) :
                    s[n] = sep /\ \A j \in 1..(n - 1) : s[j] # sep
         IN  <<SubSeq(s, 1, i - 1)>> \o split(SubSeq(s, i + 1, Len(s)), sep)

\* d[k] = v on a dict
dict_setitem(d, k, v) ==
  [x \in DOMAIN d \cup {k} |-> IF x = k THEN v ELSE d[x]]

\* a bug that keeps the first url stored under a key (dict.setdefault)
ordered_setdefault(d, k, v) ==
  IF \E i \in 1..Len(d) : d[i].key = k
    THEN d
    ELSE Append(d, [key |-> k, url |-> v])

\* movie_page_urls[key] = movie_page_url on the insertion-ordered dict: an
\* existing key keeps its place and takes the new value, a new key goes last
ordered_setitem(d, k, v) ==
  IF \E i \in 1..Len(d) : d[i].key = k
    THEN [i \in 1..Len(d) |->
            IF d[i].key = k THEN [key |-> k, url |-> v] ELSE d[i]]
    ELSE Append(d, [key |-> k, url |-> v])

\* dict.values(), in insertion order
dict_values(d) == [i \in 1..Len(d) |-> d[i].url]

dict_keys(d) == [i \in 1..Len(d) |-> d[i].key]

\* a bug that rebinds the list to the page's urls instead of extending it
list_assign(l, values) == values

\* list.extend(values)
list_extend(l, values) == l \o values

SeqsUpTo(S, n) == UNION {[1..k -> S] : k \in 0..n}

-----------------------------------------------------------------------------
(* What the network can answer *)

\* link texts and link attributes of the elements a list page can hold
LinkTexts == {<<"A">>, <<"B">>}

Hrefs == {<<"/", "1">>, <<"/", "2">>}

Urls == {FLIXABLE_REQUEST_URL \o h : h \in Hrefs}

\* an element matching MOVIE_TITLE_SELECTOR; href None: it has no such attribute
TitleElements == [text : LinkTexts, href : Hrefs \cup {None}]

\* requests.get on the list endpoint: it raises, or answers a page (whatever
\* its status, which the harvester never looks at)
ListResponses ==
  {[raises |-> TRUE, select |-> <<>>]}
    \cup [raises : {FALSE}, select : SeqsUpTo(TitleElements, MaxElems)]

TextChars == {"a", " ", ":"}

\* requests.get on a detail page; h1, year, rating, added are the texts of the
\* four elements soup.find looks for, None where the page has no such element
DetailResponses ==
  {[status |-> s, h1 |-> None, year |-> None, rating |-> None, added |-> None] :
      s \in {"raise", "notok"}}
    \cup [status : {"ok"},
          h1     : {None, <<" ", "Y">>},
          year   : {None, <<"2">>},
          rating : {None, <<"P", "G">>},
          added  : {None} \cup SeqsUpTo(TextChars, MaxLen)]

ApiKeys == {"Title", "Year", "Genre", "Error", "mpaa_rating",
            "added_to_netflix", "flixable_url"}

Payloads == UNION {[K -> {<<"X">>}] : K \in SUBSET ApiKeys}

\* requests.get on the OMDB endpoint: it raises, or answers with a status and
\* a body that decodes to a dict or does not decode
ApiResponses ==
  {[status |-> "raise", is_json |-> FALSE, json |-> EmptyDict]}
    \cup [status : {"ok"}, is_json : {TRUE}, json : Payloads]
    \cup [status : {"ok", "notok"}, is_json : {FALSE}, json : {EmptyDict}]
    \cup [status : {"notok"}, is_json : {TRUE},
          json : {EmptyDict, [Error |-> <<"X">>]}]

-----------------------------------------------------------------------------
(* The helper functions *)

\* the loop of get_flixable_movie_urls over the selected elements
RECURSIVE build_movie_page_urls(_, _)
build_movie_page_urls(movie_titles, movie_page_urls) ==
  IF movie_titles = <<>>
    THEN movie_page_urls
    ELSE build_movie_page_urls(
           Tail(movie_titles),
           ordered_setitem(movie_page_urls, Head(movie_titles).text,
                           FLIXABLE_REQUEST_URL \o Head(movie_titles).href))

get_flixable_movie_urls(response) ==
  IF response.raises
    THEN Raise("ConnectionError")
    ELSE IF \E i \in 1..Len(response.select) : response.select[i].href = None
      THEN Raise("KeyError")
      ELSE Return(build_movie_page_urls(response.select, <<>>))

get_extra_info(response) ==
  IF response.status = "raise"
    THEN Raise("ConnectionError")
    ELSE IF response.status # "ok"
      THEN Return(EmptyDict)
      ELSE IF ~response.is_json
        THEN Raise("ValueError")
        ELSE IF "Error" \notin DOMAIN response.json
          THEN Return(response.json)
          ELSE Return(EmptyDict)

\* a bug that reads the rating element without its .text, so that a page
\* lacking it raises nothing
flixable_fields_unchecked_rating(soup) ==
  IF soup.h1 = None \/ soup.year = None \/ soup.added = None
    THEN Raise("AttributeError")
    ELSE IF Len(split(soup.added, ":")) < 2
      THEN Raise("IndexError")
      ELSE Return([title |-> strip(soup.h1),
                   year |-> soup.year,
                   mpaa_rating |-> soup.rating,
                   added_to_netflix |-> strip(split(soup.added, ":")[2])])

\* the try block of get_info: the four soup.find(...).text reads, then the
\* split of the added-to-netflix block
flixable_fields(soup) ==
  IF soup.h1 = None \/ soup.year = None \/ soup.rating = None \/ soup.added = None
    THEN Raise("AttributeError")
    ELSE IF Len(split(soup.added, ":")) < 2
      THEN Raise("IndexError")
      ELSE Return([title |-> strip(soup.h1),
                   year |-> soup.year,
                   mpaa_rating |-> soup.rating,
                   added_to_netflix |-> strip(split(soup.added, ":")[2])])

default_info_dict(url) == [flixable_url |-> url]

\* a bug that lays the OMDB dict over the flixable values (dict.update), so
\* that OMDB wins on a shared key
merge_info_omdb_last(info_dict, f, url) ==
  [k \in DOMAIN info_dict
         \cup {"Title", "Year", "mpaa_rating", "added_to_netflix", "flixable_url"} |->
     IF k \in DOMAIN info_dict THEN info_dict[k]
     ELSE IF k = "Title" THEN f.title
     ELSE IF k = "Year" THEN f.year
     ELSE IF k = "mpaa_rating" THEN f.mpaa_rating
     ELSE IF k = "added_to_netflix" THEN f.added_to_netflix
     ELSE url]

\* a bug that leaves out the assignment of flixable_url
merge_info_without_url(info_dict, f, url) ==
  dict_setitem(
    dict_setitem(
      dict_setitem(
        dict_setitem(info_dict, "Title", f.title),
        "Year", f.year),
      "mpaa_rating", f.mpaa_rating),
    "added_to_netflix", f.added_to_netflix)

\* the five assignments of get_info onto the dict get_extra_info returned
merge_info(info_dict, f, url) ==
  dict_setitem(
    dict_setitem(
      dict_setitem(
        dict_setitem(
          dict_setitem(info_dict, "Title", f.title),
          "Year", f.year),
        "mpaa_rating", f.mpaa_rating),
      "added_to_netflix", f.added_to_netflix),
    "flixable_url", url)

\* what one pass of get_info's loop does: requests lists the requests it made,
\* in order; fault "none" means value is the record it appended
Iteration(f, v, r) == [fault |-> f, value |-> v, requests |-> r]

\* a bug that asks OMDB before looking at the detail page's answer
get_info_iteration_omdb_first(url, response, omdb_response) ==
  IF response.status = "raise"
    THEN Iteration("ConnectionError", None, <<"detail">>)
    ELSE LET info_dict == get_extra_info(omdb_response) IN
      IF info_dict.fault # "none"
        THEN Iteration(info_dict.fault, None, <<"detail", "omdb">>)
        ELSE IF response.status # "ok"
          THEN Iteration("none", default_info_dict(url), <<"detail", "omdb">>)
          ELSE LET f == flixable_fields(response) IN
            IF f.fault = "AttributeError"
              THEN Iteration("none", default_info_dict(url), <<"detail", "omdb">>)
              ELSE IF f.fault # "none"
                THEN Iteration(f.fault, None, <<"detail", "omdb">>)
                ELSE Iteration("none",
                               merge_info(info_dict.value, f.value, url),
                               <<"detail", "omdb">>)

get_info_iteration(url, response, omdb_response) ==
  IF response.status = "raise"
    THEN Iteration("ConnectionError", None, <<"detail">>)
    ELSE IF response.status # "ok"
      THEN Iteration("none", default_info_dict(url), <<"detail">>)
      ELSE LET f == flixable_fields(response) IN
        IF f.fault = "AttributeError"
          THEN Iteration("none", default_info_dict(url), <<"detail">>)
          ELSE IF f.fault # "none"
            THEN Iteration(f.fault, None, <<"detail">>)
            ELSE LET info_dict == get_extra_info(omdb_response) IN
              IF info_dict.fault # "none"
                THEN Iteration(info_dict.fault, None, <<"detail", "omdb">>)
                ELSE Iteration("none",
                               merge_info(info_dict.value, f.value, url),
                               <<"detail", "omdb">>)

\* every way one pass of the loop can go for a url, over all the answers the
\* detail page and the OMDB endpoint can give
IterationsOf ==
  [url \in Urls |->
     {get_info_iteration(url, response, omdb_response) :
        response \in DetailResponses, omdb_response \in ApiResponses}]

\* pd.DataFrame(info_dicts).to_csv: one column per key of any record, one row
\* per record, a key the record lacks written as the empty string
to_csv(rows) ==
  LET columns == UNION {DOMAIN rows[i] : i \in 1..Len(rows)} IN
  [i \in 1..Len(rows) |->
     [c \in columns |-> IF c \in DOMAIN rows[i] THEN rows[i][c] ELSE <<>>]]

-----------------------------------------------------------------------------
(* The script: the "Perform Scrape" cell *)

ListRequest(p) == [req |-> "list", page |-> p, url |-> <<>>]

DetailRequest(url) == [req |-> "detail", page |-> 0, url |-> url]

OmdbRequest(url) == [req |-> "omdb", page |-> 0, url |-> url]

CsvWrite == [req |-> "csv", page |-> 0, url |-> <<>>]

Init ==
  /\ pc = "scrape"
  /\ page = 1
  /\ movie_urls = <<>>
  /\ movie_keys = <<>>
  /\ info_dicts = <<>>
  /\ csv = <<>>
  /\ log = <<>>
  /\ fault = "none"
  /\ fn = "script"
  /\ arg = None
  /\ ret = None

\* one pass of the loop over range(1, N_PAGES + 1)
ScrapePage ==
  /\ pc = "scrape"
  /\ \E response \in ListResponses :
       LET movie_url_dict == get_flixable_movie_urls(response) IN
       /\ log' = Append(log, ListRequest(page))
       /\ IF movie_url_dict.fault # "none"
            THEN /\ pc' = "aborted"
                 /\ fault' = movie_url_dict.fault
                 /\ UNCHANGED <<page, movie_urls, movie_keys>>
            ELSE /\ Len(movie_urls) + Len(movie_url_dict.value) <= MaxUrls
                 /\ movie_urls' = list_extend(movie_urls, dict_values(movie_url_dict.value))
                 /\ movie_keys' = list_extend(movie_keys, dict_keys(movie_url_dict.value))
                 /\ page' = IF page = N_PAGES THEN page ELSE page + 1
                 /\ pc' = IF page = N_PAGES THEN "get_info" ELSE "scrape"
                 /\ fault' = fault
  /\ UNCHANGED <<info_dicts, csv, fn, arg, ret>>

\* one pass of get_info's loop over flixable_urls
GetInfoIteration ==
  /\ pc = "get_info"
  /\ Len(info_dicts) < Len(movie_urls)
  /\ LET url == movie_urls[Len(info_dicts) + 1] IN
     \E it \in IterationsOf[url] :
       /\ log' = log \o [i \in 1..Len(it.requests) |->
                           IF it.requests[i] = "detail"
                             THEN DetailRequest(url)
                             ELSE OmdbRequest(url)]
       /\ IF it.fault # "none"
            THEN /\ pc' = "aborted"
                 /\ fault' = it.fault
                 /\ UNCHANGED info_dicts
            ELSE /\ info_dicts' = Append(info_dicts, it.value)
                 /\ UNCHANGED <<pc, fault>>
  /\ UNCHANGED <<page, movie_urls, movie_keys, csv, fn, arg, ret>>

\* get_info returns the frame and the cell writes it
ToCsv ==
  /\ pc = "get_info"
  /\ Len(info_dicts) = Len(movie_urls)
  /\ csv' = Append(csv, to_csv(info_dicts))
  /\ log' = Append(log, CsvWrite)
  /\ pc' = "done"
  /\ UNCHANGED <<page, movie_urls, movie_keys, info_dicts, fault, fn, arg, ret>>

Next == ScrapePage \/ GetInfoIteration \/ ToCsv

Spec == Init /\ [][Next]_vars

-----------------------------------------------------------------------------
(* The helper functions called on their own, on every answer of the network *)

InitFn ==
  /\ pc = "call"
  /\ page = 1
  /\ movie_urls = <<>>
  /\ movie_keys = <<>>
  /\ info_dicts = <<>>
  /\ csv = <<>>
  /\ log = <<>>
  /\ fault = "none"
  /\ ret = None
  /\ \/ /\ fn = "get_flixable_movie_urls"
        /\ arg \in ListResponses
     \/ /\ fn = "get_info"
        /\ arg \in [url : Urls, response : DetailResponses,
                    omdb_response : ApiResponses]

\* get_flixable_movie_urls(params) on the page arg
CallHarvest ==
  /\ pc = "call"
  /\ fn = "get_flixable_movie_urls"
  /\ ret' = get_flixable_movie_urls(arg)
  /\ pc' = "return"
  /\ UNCHANGED <<script_vars, fn, arg>>

\* get_info([arg.url]) with the two endpoints answering as arg says
CallGetInfo ==
  /\ pc = "call"
  /\ fn = "get_info"
  /\ ret' = get_info_iteration(arg.url, arg.response, arg.omdb_response)
  /\ pc' = "return"
  /\ UNCHANGED <<script_vars, fn, arg>>

NextFn == CallHarvest \/ CallGetInfo

SpecFn == InitFn /\ [][NextFn]_vars

-----------------------------------------------------------------------------
(* Properties of the helper functions, under SpecFn *)

FlixableKeys == {"Title", "Year", "mpaa_rating", "added_to_netflix", "flixable_url"}

\* get_info has come back from the call on [arg.url]
GetInfoReturned == pc = "return" /\ fn = "get_info"

HarvestReturned == pc = "return" /\ fn = "get_flixable_movie_urls"

\* the detail page lacks one of the four elements get_info reads
ElementAbsent(soup) ==
  soup.h1 = None \/ soup.year = None \/ soup.rating = None \/ soup.added = None

\* the OMDB answer is a 2xx whose body decodes to a dict without an Error key
OmdbFound(r) == r.status = "ok" /\ r.is_json /\ "Error" \notin DOMAIN r.json

\* the detail page was fetched and its four fields were read
Parsed ==
  /\ arg.response.status = "ok"
  /\ ~ElementAbsent(arg.response)
  /\ flixable_fields(arg.response).fault = "none"

\* C2: every record get_info produces for a url holds flixable_url, equal to
\* that url: the url-only record of a failed fetch or parse, the record built
\* on an empty OMDB lookup, and the merged record, also when the OMDB payload
\* has a flixable_url key of its own.
C2_FlixableUrlIsInputUrl ==
  (GetInfoReturned /\ ret.fault = "none") =>
    /\ "flixable_url" \in DOMAIN ret.value
    /\ ret.value["flixable_url"] = arg.url

C2_Witness ==
  /\ GetInfoReturned
  /\ ret.fault = "none"
  /\ OmdbFound(arg.omdb_response)
  /\ "flixable_url" \in DOMAIN arg.omdb_response.json
  /\ "Genre" \in DOMAIN ret.value
  /\ arg.omdb_response.json["flixable_url"] # arg.url
  /\ ret.value["flixable_url"] = arg.url

C5_FailedLookupIsEmptyMapping ==
  (GetInfoReturned /\ Parsed /\ ~OmdbFound(arg.omdb_response)) =>
    LET f == flixable_fields(arg.response).value
    IN  /\ ret.fault = "none"
        /\ DOMAIN ret.value = FlixableKeys
        /\ ret.value["Title"] = f.title
        /\ ret.value["Year"] = f.year
        /\ ret.value["mpaa_rating"] = f.mpaa_rating
        /\ ret.value["added_to_netflix"] = f.added_to_netflix
        /\ ret.value["flixable_url"] = arg.url

\* C6: on a found OMDB payload P the record is P with Title, Year,
\* mpaa_rating, added_to_netflix and flixable_url set to the detail page's
\* values: those five hold the flixable values whatever P says, every other
\* key of P keeps P's value, and there is no further key.
C6_FlixableOverridesOmdb ==
  (GetInfoReturned /\ Parsed /\ OmdbFound(arg.omdb_response)) =>
    LET P == arg.omdb_response.json
        f == flixable_fields(arg.response).value
    IN  /\ ret.fault = "none"
        /\ DOMAIN ret.value = DOMAIN P \cup FlixableKeys
        /\ ret.value["Title"] = f.title
        /\ ret.value["Year"] = f.year
        /\ ret.value["mpaa_rating"] = f.mpaa_rating
        /\ ret.value["added_to_netflix"] = f.added_to_netflix
        /\ ret.value["flixable_url"] = arg.url
        /\ \A k \in DOMAIN P \ FlixableKeys : ret.value[k] = P[k]

C6_Witness ==
  /\ GetInfoReturned
  /\ Parsed
  /\ OmdbFound(arg.omdb_response)
  /\ DOMAIN arg.omdb_response.json = {"Title", "Year", "Genre"}
  /\ ret.fault = "none"
  /\ ret.value["Title"] = <<"Y">>
  /\ ret.value["Title"] # arg.omdb_response.json["Title"]
  /\ ret.value["Year"] = <<"2">>
  /\ ret.value["Genre"] = arg.omdb_response.json["Genre"]

\* the texts of the selected elements
SelectedTexts(select) == {select[i].text : i \in 1..Len(select)}

\* the last selected element with the text t
LastWithText(select, t) ==
  select[CHOOSE i \in 1..Len(select) :
           /\ select[i].text = t
           /\ \A j \in (i + 1)..Len(select) : select[j].text # t]

AllHaveHref(select) == \A e \in 1..Len(select) : select[e].href # None

\* C7 as stated, on the pages it speaks of (every selected element has a link
\* attribute): get_flixable_movie_urls returns a mapping whose keys are
\* exactly the texts of the selected elements, every element's text mapped
\* to the base url joined with that element's href.
C7_EveryElementMapped ==
  (HarvestReturned /\ ~arg.raises /\ AllHaveHref(arg.select)) =>
    /\ ret.fault = "none"
    /\ {ret.value[i].key : i \in 1..Len(ret.value)} = SelectedTexts(arg.select)
    /\ \A e \in 1..Len(arg.select) :
         \E i \in 1..Len(ret.value) :
           /\ ret.value[i].key = arg.select[e].text
           /\ ret.value[i].url = FLIXABLE_REQUEST_URL \o arg.select[e].href

\* C7 amended: if a selected element has no href the call raises KeyError;
\* otherwise it returns a mapping whose keys are exactly the texts of the
\* selected elements, one entry per text, each text mapped to the base url
\* joined with the href of the last selected element with that text; on a
\* page without selected elements it returns the empty mapping.
C7_LastElementMapped ==
  (HarvestReturned /\ ~arg.raises) =>
    IF ~AllHaveHref(arg.select)
      THEN ret.fault = "KeyError"
      ELSE /\ ret.fault = "none"
           /\ {ret.value[i].key : i \in 1..Len(ret.value)} = SelectedTexts(arg.select)
           /\ Len(ret.value) = Cardinality(SelectedTexts(arg.select))
           /\ \A i \in 1..Len(ret.value) :
                ret.value[i].url =
                  FLIXABLE_REQUEST_URL \o LastWithText(arg.select, ret.value[i].key).href
           /\ arg.select = <<>> => ret.value = <<>>

C7_Witness ==
  /\ HarvestReturned
  /\ ~arg.raises
  /\ Len(arg.select) = 2
  /\ arg.select[1].text = arg.select[2].text
  /\ arg.select[1].href # arg.select[2].href
  /\ ret.fault = "none"
  /\ Len(ret.value) = 1
  /\ ret.value[1].url = FLIXABLE_REQUEST_URL \o arg.select[2].href

\* what follows the first occurrence of sep in s
AfterFirst(s, sep) ==
  LET i == CHOOSE n \in 1..Len(s) :
             s[n] = sep /\ \A j \in 1..(n - 1) : s[j] # sep
  IN  SubSeq(s, i + 1, Len(s))

\* C9: the added_to_netflix of a record is all of the text block after its
\* first colon, stripped, also when the block has more than one colon.
C9_WholeTextAfterFirstColon ==
  (GetInfoReturned /\ ret.fault = "none" /\ "added_to_netflix" \in DOMAIN ret.value) =>
    ret.value["added_to_netflix"] = strip(AfterFirst(arg.response.added, ":"))

-----------------------------------------------------------------------------
(* Properties of the script, under Spec *)

\* the positions of the log that hold a request of the kind req
Positions(req) == {i \in 1..Len(log) : log[i].req = req}

\* get_info was entered and has ended, by returning or by raising
GetInfoEnded ==
  \/ pc = "done"
  \/ pc = "aborted" /\ log[Len(log)].req \in {"detail", "omdb"}

\* C1: once get_info has ended on the harvested urls, the table holds one row
\* per url, in the order of the urls: as many rows as urls, and row i is the
\* record of url i.
C1_OneRowPerUrl ==
  GetInfoEnded =>
    /\ Len(csv) = 1
    /\ Len(csv[1]) = Len(movie_urls)
    /\ \A i \in 1..Len(movie_urls) : csv[1][i]["flixable_url"] = movie_urls[i]

\* C3: a pass of get_info's loop never ends the run and never touches the
\* records of the other urls: it adds the record of its own url after the
\* ones collected so far and leaves the loop to go on with the next url.
C3_PassNeverAborts ==
  [][(pc = "get_info" /\ Len(info_dicts) < Len(movie_urls)) =>
       /\ pc' = "get_info"
       /\ Len(info_dicts') = Len(info_dicts) + 1
       /\ SubSeq(info_dicts', 1, Len(info_dicts)) = info_dicts
       /\ info_dicts'[Len(info_dicts')]["flixable_url"]
            = movie_urls[Len(info_dicts) + 1]]_vars

\* C8 as stated: the urls handed to get_info hold at most one url per title
\* text, a later link having overwritten an earlier one with the same text.
C8_OneUrlPerTitle ==
  pc = "get_info" =>
    \A i, j \in 1..Len(movie_keys) : i # j => movie_keys[i] # movie_keys[j]

\* C8 amended: links with the same title text overwrite one another within
\* one page only.  Every pass of the scrape loop adds at most one url per
\* title text, after the urls of the earlier pages, which it leaves as they
\* are; so the urls handed to get_info can hold several urls for one title.
C8_OverwriteWithinPageOnly ==
  [][(pc = "scrape" /\ pc' # "aborted") =>
       /\ Len(movie_keys') >= Len(movie_keys)
       /\ Len(movie_urls') = Len(movie_keys')
       /\ SubSeq(movie_keys', 1, Len(movie_keys)) = movie_keys
       /\ SubSeq(movie_urls', 1, Len(movie_urls)) = movie_urls
       /\ \A i, j \in (Len(movie_keys) + 1)..Len(movie_keys') :
            i # j => movie_keys'[i] # movie_keys'[j]]_vars

C8_Witness ==
  /\ pc = "get_info"
  /\ Len(movie_urls) = 2
  /\ movie_keys[1] = movie_keys[2]
  /\ movie_urls[1] # movie_urls[2]

\* C10: the run is phased and sequential.  The list endpoint is asked for the
\* pages 1, 2, ... in this order, each once, and for all N_PAGES of them
\* before the first detail page is asked for; the detail pages are asked for
\* one url at a time in the order of the urls, each url done with before the
\* next; OMDB is asked about a url only right after that url's detail page,
\* and only if the page gave its four fields (the url's record is then no
\* url-only record); the table is written at most once, as the last step,
\* after the record of the last url, and exactly once when the run is done.
C10_PhasedAndSequential ==
  /\ \A i \in Positions("list") : log[i].page = i /\ i <= N_PAGES
  /\ \A i \in 1..Len(log) : log[i].req # "list" => i > N_PAGES
  /\ pc \in {"get_info", "done"} => Cardinality(Positions("list")) = N_PAGES
  /\ Cardinality(Positions("detail")) \in {Len(info_dicts), Len(info_dicts) + 1}
  /\ Cardinality(Positions("detail")) = Len(info_dicts) + 1 =>
       pc = "aborted"
  /\ \A i \in Positions("detail") :
       LET k == Cardinality({j \in Positions("detail") : j <= i})
       IN  /\ k <= Len(movie_urls)
           /\ log[i].url = movie_urls[k]
           /\ (i < Len(log) /\ log[i + 1].req = "omdb") =>
                (k <= Len(info_dicts) => DOMAIN info_dicts[k] # {"flixable_url"})
           /\ (i = Len(log) \/ log[i + 1].req # "omdb") =>
                (k <= Len(info_dicts) => DOMAIN info_dicts[k] = {"flixable_url"})
  /\ \A i \in Positions("omdb") :
       i > 1 /\ log[i - 1].req = "detail" /\ log[i - 1].url = log[i].url
  /\ \A i \in Positions("csv") : i = Len(log)
  /\ Cardinality(Positions("csv")) = Len(csv)
  /\ Len(csv) = (IF pc = "done" THEN 1 ELSE 0)
  /\ pc = "done" =>
       /\ Len(info_dicts) = Len(movie_urls)
       /\ Len(csv[1]) = Len(info_dicts)

C10_Witness ==
  /\ pc = "done"
  /\ Len(movie_urls) = 2
  /\ Len(csv[1]) = 2
  /\ DOMAIN info_dicts[1] = {"flixable_url"}
  /\ "Genre" \in DOMAIN info_dicts[2]
  /\ log[Len(log)] = CsvWrite
  /\ log[Len(log) - 1] = OmdbRequest(movie_urls[2])
  /\ log[Len(log) - 2] = DetailRequest(movie_urls[2])
  /\ log[Len(log) - 3] = DetailRequest(movie_urls[1])
  /\ log[Len(log) - 4] = ListRequest(N_PAGES)

====
